---- MODULE Spec2Model ----
(***************************************************************************)
(* Model of the coloring-book backend's two in-memory job trackers:        *)
(*   - pdfController (pdfJobs) with pdfService.generateColoringBookPDF     *)
(*   - processController (processingJobs) with openaiService               *)
(* Every action is one run-to-completion segment of a handler on the Node  *)
(* event loop: the code between two awaits runs without interleaving.      *)
(***************************************************************************)
EXTENDS Integers, Sequences, FiniteSets, TLC

\* ---------------------------------------------------------------- bounds
MaxJobs == 2          \* PDF jobs submitted in one run
MaxImages == 2        \* longest imageUrls array in a submitted body
MaxCallImages == 3    \* longest imageUrls array in a direct service call
MaxProcJobs == 2      \* image-processing jobs submitted in one run
MaxClock == 1         \* milliseconds Date.now() advances over a run
MaxPolls == 3         \* status requests one ImageUploader component issues

\* ------------------------------------------------------------ JS values
Undefined == "undefined"

\* names every object literal inherits from Object.prototype
ObjectPrototypeKeys == {"constructor", "toString"}

\* mutant: an identifier source that hands out the same identifier again
Uuid_reused(n) == "uuid-1"

\* uuidv4(): the n-th identifier drawn; all draws are distinct
Uuid(n) == "uuid-" \o ToString(n)

\* x || d
OrElse(x, d) == IF x = Undefined THEN d ELSE x

\* table[id] is truthy: an own entry, or a member inherited from Object.prototype
HasEntry(table, id) == id \in DOMAIN table \/ id \in ObjectPrototypeKeys

VARIABLES
  env,        \* process.env as read at module load
  pdfJobs,    \* pdfController: jobId -> job record
  tasks,      \* jobId -> state of that job's generateColoringBookPDF invocation
  hist,       \* jobId -> sequence of values assigned to the job's status field
  nextUuid,   \* number of PDF jobs created so far
  resp,       \* response written by the step just taken (NoResp if none)
  call,       \* a direct invocation of generateColoringBookPDF
  processingJobs, \* processController: jobId -> job record
  converts,   \* jobId -> state of that job's processImage handler
  confirms,   \* jobId -> state of an in-flight confirmProcessedImage handler
  tempFiles,  \* ids whose <id>_output.png exists in TEMP_DIR
  nextProc,   \* number of processing jobs created so far
  bucket,     \* jobIds whose image has been stored in the processed bucket
  canceled,   \* jobIds whose record a cancelProcessing request has removed
  now,        \* the value Date.now() returns
  objects,    \* the processed bucket: key -> jobId whose image it holds
  client      \* state of a mounted ImageUploader component

vars == <<env, pdfJobs, tasks, hist, nextUuid, resp, call,
          processingJobs, converts, confirms, tempFiles, nextProc, bucket, canceled,
          now, objects, client>>
pdfVars == <<pdfJobs, tasks, hist, nextUuid>>
procVars == <<processingJobs, converts, confirms, tempFiles, nextProc, bucket, canceled,
              now, objects>>

\* ------------------------------------------------------------ environment
\* the deployments the repository documents: development with .env.example,
\* production with no variables set, production with .env.example and Clerk
Envs ==
  { [NODE_ENV |-> "development", MIN_IMAGES_REQUIRED |-> "2", CLERK_API_KEY |-> Undefined],
    [NODE_ENV |-> "production", MIN_IMAGES_REQUIRED |-> Undefined, CLERK_API_KEY |-> Undefined],
    [NODE_ENV |-> "production", MIN_IMAGES_REQUIRED |-> "2", CLERK_API_KEY |-> "key"] }

\* parseInt(s, 10) on the decimal strings the configurations use
ParseInt(s) == CASE s = "2" -> 2 [] s = "8" -> 8

MIN_IMAGES_REQUIRED(e) == ParseInt(OrElse(e.MIN_IMAGES_REQUIRED, "8"))

\* req.user?.userId after authMiddleware has let the request through
AuthUserId(e) ==
  IF e.NODE_ENV = "development" THEN "user_dev123"
  ELSE IF e.CLERK_API_KEY # Undefined THEN "user_123"
  ELSE Undefined

\* ---------------------------------------------------------------- responses
NoResp == [handler |-> "none", code |-> 0, jobId |-> Undefined, status |-> Undefined,
           pdfUrl |-> Undefined, message |-> Undefined, pdfs |-> <<>>]

Response(h, c, id, st, url, msg) ==
  [handler |-> h, code |-> c, jobId |-> id, status |-> st, pdfUrl |-> url, message |-> msg,
   pdfs |-> <<>>]

\* ------------------------------------------------ pdfService: the document
\* kinds of image reference an imageUrls array can hold, named by what the
\* reference is and by what storage and the web hold for it
\*   data_valid       data:image/...;base64,<a PNG or JPEG>
\*   data_corrupt     data:image/...;base64,<bytes PDFKit cannot open>
\*   data_nocomma     data:image... with no comma, so split(',')[1] is undefined
\*   url_s3           a URL whose object storage holds, a PNG or JPEG
\*   url_s3_corrupt   a URL whose object storage holds, bytes PDFKit cannot open
\*   url_http         a URL storage does not hold and the web serves, a PNG or JPEG
\*   url_http_corrupt a URL storage does not hold and the web serves, other bytes
\*   url_dead         a URL neither storage nor the web can deliver
\*   text             a string that new URL() rejects
RefKinds ==
  {"data_valid", "data_corrupt", "data_nocomma", "url_s3", "url_s3_corrupt",
   "url_http", "url_http_corrupt", "url_dead", "text"}

\* kind of reference the bodies submitted with several jobs in flight are built
\* from: it takes the invocation through both awaits of the resolver
SubmitRefs == {"url_http"}

\* imageUrl.startsWith('data:image')
IsInline(ref) == ref \in {"data_valid", "data_corrupt", "data_nocomma"}

\* new URL(imageUrl) does not throw
IsUrl(ref) == ref \in {"url_s3", "url_s3_corrupt", "url_http", "url_http_corrupt", "url_dead"}

\* Buffer.from(imageUrl.split(',')[1], 'base64')
InlineBytes(ref) == IF ref = "data_valid" THEN "valid" ELSE "corrupt"

\* s3.getObject(...).promise(): the body, or a rejection or an empty body
S3Fetch(ref) ==
  CASE ref = "url_s3" -> "valid"
    [] ref = "url_s3_corrupt" -> "corrupt"
    [] OTHER -> "throws"

\* axios.get(imageUrl, ...): the body, or a rejection
HttpFetch(ref) ==
  CASE ref \in {"url_s3", "url_http"} -> "valid"
    [] ref \in {"url_s3_corrupt", "url_http_corrupt"} -> "corrupt"
    [] OTHER -> "throws"

\* the write stream's 'finish' or 'error' event
WriteOutcomes == {"finish", "error"}
\* s3.upload resolves or rejects
UploadOutcomes == {"ok", "throws"}

NoError == [isError |-> FALSE, message |-> Undefined]
JsError(msg) == [isError |-> TRUE, message |-> msg]

\* the page doc.addPage() starts
BlankPage ==
  [cover |-> FALSE, title |-> Undefined, image |-> -1, placeholder |-> 0, footer |-> <<>>]

\* the cover page drawn before the loop, footer `Page 1 of ${pageCount}`
CoverPage(title, n) ==
  [cover |-> TRUE, title |-> title, image |-> -1, placeholder |-> 0, footer |-> <<1, n + 1>>]

AddPage(g) == [g EXCEPT !.pages = Append(@, BlankPage)]

\* mutant: the loop steps over the image that follows
NextImage_skipsOne(g) ==
  LET h == [g EXCEPT !.i = @ + 2]
  IN  IF h.i < Len(h.imageUrls) THEN [h EXCEPT !.pc = "loop"] ELSE [h EXCEPT !.pc = "finish"]

\* i++ and the loop test; after the last image doc.end() and the await of 'finish'
NextImage(g) ==
  LET h == [g EXCEPT !.i = @ + 1]
  IN  IF h.i < Len(h.imageUrls) THEN [h EXCEPT !.pc = "loop"] ELSE [h EXCEPT !.pc = "finish"]

\* mutant: a failing image rethrows out of the loop instead of being replaced
Placeholder_aborts(g) == [g EXCEPT !.pc = "thrown", !.error = JsError("image failed")]

\* the catch block of the loop body: a new page only when i > 0, then the
\* placeholder text `Unable to process image ${i + 1}` on the current page
Placeholder(g) ==
  LET h == IF g.i > 0 THEN AddPage(g) ELSE g
      n == Len(h.pages)
  IN  NextImage([h EXCEPT !.pages[n].placeholder = g.i + 1])

\* mutant: no new page for the first image, as the comment above addPage says
Draw_firstOnCover(g, bytes) ==
  LET h == IF g.i > 0 THEN AddPage(g) ELSE g
      n == Len(h.pages)
  IN  IF bytes = "valid"
      THEN NextImage([h EXCEPT !.pages[n].image = g.i,
                               !.pages[n].footer = <<g.i + 2, Len(g.imageUrls) + 1>>])
      ELSE Placeholder(h)

\* the tail of the try block once the bytes are there: doc.addPage(), then
\* doc.image(), which throws on bytes it cannot open, then the footer
Draw(g, bytes) ==
  LET h == AddPage(g)
      n == Len(h.pages)
  IN  IF bytes = "valid"
      THEN NextImage([h EXCEPT !.pages[n].image = g.i,
                               !.pages[n].footer = <<g.i + 2, Len(g.imageUrls) + 1>>])
      ELSE Placeholder(h)

\* runs the loop up to the next await: inline references are decoded and drawn
\* in the same tick, any other reference suspends on s3.getObject, or on
\* axios.get when new URL() has thrown
RECURSIVE Run(_)
Run(g) ==
  IF g.pc # "loop" THEN g
  ELSE LET ref == g.imageUrls[g.i + 1]
       IN  IF IsInline(ref)
           THEN IF ref = "data_nocomma" THEN Run(Placeholder(g))
                ELSE Run(Draw(g, InlineBytes(ref)))
           ELSE IF IsUrl(ref) THEN [g EXCEPT !.pc = "s3"]
                ELSE [g EXCEPT !.pc = "http"]

\* generateColoringBookPDF(imageUrls, title) up to its first await
NewGen(imageUrls, title, pdfId) ==
  Run([imageUrls |-> imageUrls, title |-> title, pdfId |-> pdfId,
       pc |-> IF Len(imageUrls) > 0 THEN "loop" ELSE "finish", i |-> 0,
       pages |-> <<CoverPage(title, Len(imageUrls))>>,
       tmp |-> TRUE, result |-> Undefined, error |-> NoError])

Idle ==
  [imageUrls |-> <<>>, title |-> Undefined, pdfId |-> Undefined, pc |-> "idle", i |-> 0,
   pages |-> <<>>, tmp |-> FALSE, result |-> Undefined, error |-> NoError]

\* mutant: a storage failure is final, no HTTP request follows
AfterS3_noFallback(g) ==
  LET out == S3Fetch(g.imageUrls[g.i + 1])
  IN  IF out = "throws" THEN Run(Placeholder(g)) ELSE Run(Draw(g, out))

\* s3.getObject settles: a body is drawn, an empty body or a rejection falls
\* back to axios.get
AfterS3(g) ==
  LET out == S3Fetch(g.imageUrls[g.i + 1])
  IN  IF out = "throws" THEN [g EXCEPT !.pc = "http"] ELSE Run(Draw(g, out))

\* axios.get settles: a body is drawn, a rejection reaches the catch block
AfterHttp(g) ==
  LET out == HttpFetch(g.imageUrls[g.i + 1])
  IN  IF out = "throws" THEN Run(Placeholder(g)) ELSE Run(Draw(g, out))

\* the write stream settles: 'finish' starts s3.upload, 'error' rejects
AfterWrite(g, out) ==
  IF out = "finish" THEN [g EXCEPT !.pc = "upload"]
  ELSE [g EXCEPT !.pc = "thrown", !.error = JsError("write failed")]

\* the locator returned for the uploaded key
PdfUrl(e, pdfId) ==
  IF e.NODE_ENV = "development"
  THEN "http://localstack:4566/coloringbook-final-pdfs/final-pdfs/" \o pdfId \o ".pdf"
  ELSE "https://coloringbook-final-pdfs.s3.amazonaws.com/final-pdfs/" \o pdfId \o ".pdf"

\* s3.upload settles: on success the temp file is unlinked and the URL returned
AfterUpload(e, g, out) ==
  IF out = "ok"
  THEN [g EXCEPT !.pc = "returned", !.tmp = FALSE, !.result = PdfUrl(e, g.pdfId)]
  ELSE [g EXCEPT !.pc = "thrown", !.error = JsError("upload failed")]

\* one await of the invocation settles
GenNext(e, g) ==
  CASE g.pc = "s3" -> {AfterS3(g)}
    [] g.pc = "http" -> {AfterHttp(g)}
    [] g.pc = "finish" -> {AfterWrite(g, out) : out \in WriteOutcomes}
    [] g.pc = "upload" -> {AfterUpload(e, g, out) : out \in UploadOutcomes}
    [] OTHER -> {}

\* ------------------------------------------------------------ pdfController
\* a property read on a JS object: undefined when the object has no such member
Prop(obj, f) == IF f \in DOMAIN obj THEN obj[f] ELSE Undefined

\* table[id] when it is truthy: the own entry, else the inherited member, a
\* function object that has none of a job's fields
PrototypeMember == [inherited |-> TRUE]
Entry(table, id) == IF id \in DOMAIN table THEN table[id] ELSE PrototypeMember

SeqsUpTo(S, n) == UNION {[1..k -> S] : k \in 0..n}

\* mutant: the insertion replaces the table by one that holds the new entry only
Store_replacesTable(table, id, rec) == id :> rec

\* table[id] = rec
Store(table, id, rec) == (id :> rec) @@ table

\* values req.body.imageUrls can take: absent, a non-array, an array
MissingBody == [truthy |-> FALSE, isArray |-> FALSE, items |-> <<>>]
\* a two-character string: it has a length and indexed members, but is no array
StringBody == [truthy |-> TRUE, isArray |-> FALSE, items |-> <<"text", "text">>]
ArrayBody(items) == [truthy |-> TRUE, isArray |-> TRUE, items |-> items]
SubmitBodies ==
  {MissingBody, StringBody} \cup {ArrayBody(s) : s \in SeqsUpTo(SubmitRefs, MaxImages)}

\* bodies of a single submission, over every kind of reference
JobBodies ==
  {MissingBody, StringBody} \cup {ArrayBody(s) : s \in SeqsUpTo(RefKinds, MaxCallImages)}

Titles == {Undefined, "Test Book"}

\* identifiers a request can name: every uuid, names Object.prototype defines,
\* and a name nothing defines
RequestIds == {Uuid(n) : n \in 1..MaxJobs} \cup ObjectPrototypeKeys \cup {"not-a-real-id"}

\* mutant: the Array.isArray test left out
NoImageUrls_noArrayCheck(body) == ~body.truthy \/ Len(body.items) = 0

\* !imageUrls || !Array.isArray(imageUrls) || imageUrls.length === 0
NoImageUrls(body) == ~body.truthy \/ ~body.isArray \/ Len(body.items) = 0

\* mutant: <= in place of <
TooFewImages_offByOne(e, body) == Len(body.items) <= MIN_IMAGES_REQUIRED(e)

\* imageUrls.length < MIN_IMAGES_REQUIRED
TooFewImages(e, body) == Len(body.items) < MIN_IMAGES_REQUIRED(e)

\* mutant: the move to processing deferred until after the first await
NewPdfJob_pending(e, body, title, n) ==
  [status |-> "pending", userId |-> AuthUserId(e), imageUrls |-> body.items,
   title |-> OrElse(title, "My Coloring Book"), pdfUrl |-> Undefined,
   message |-> Undefined, createdAt |-> n]

\* the record stored under a fresh jobId, after `status = 'processing'`
NewPdfJob(e, body, title, n) ==
  [status |-> "processing", userId |-> AuthUserId(e), imageUrls |-> body.items,
   title |-> OrElse(title, "My Coloring Book"), pdfUrl |-> Undefined,
   message |-> Undefined, createdAt |-> n]

\* the status literal of the 202 response
AcceptedStatus == "pending"

\* the values the handler assigns to status before its first await
InitialStatuses == <<"pending", "processing">>

\* POST /api/pdfs/generate, up to the first await of generateColoringBookPDF
GeneratePDF(body, title) ==
  /\ IF NoImageUrls(body)
     THEN /\ resp' = Response("generatePDF", 400, Undefined, Undefined, Undefined,
                              "No image URLs provided")
          /\ UNCHANGED pdfVars
     ELSE IF TooFewImages(env, body)
     THEN /\ resp' = Response("generatePDF", 400, Undefined, Undefined, Undefined,
                              "At least MIN_IMAGES_REQUIRED images are required")
          /\ UNCHANGED pdfVars
     ELSE /\ nextUuid < MaxJobs
          /\ LET n == nextUuid + 1
                 jobId == Uuid(n)
             IN  /\ pdfJobs' = Store(pdfJobs, jobId, NewPdfJob(env, body, title, n))
                 /\ hist' = Store(hist, jobId, InitialStatuses)
                 /\ tasks' = Store(tasks, jobId,
                                   NewGen(body.items, OrElse(title, "My Coloring Book"),
                                          "pdf-" \o ToString(n)))
                 /\ nextUuid' = n
                 /\ resp' = Response("generatePDF", 202, jobId, AcceptedStatus, Undefined,
                                     "PDF generation started")
  /\ UNCHANGED <<env, call>>
  /\ UNCHANGED procVars

\* mutant: the catch block records the fallback text for every thrown value
ErrorMessage_alwaysFallback(err) == "Unknown error"

\* error instanceof Error ? error.message : 'Unknown error'
ErrorMessage(err) == IF err.isError THEN err.message ELSE "Unknown error"

\* mutant: a failed job is put back to pending for a retry
SettleJob_requeues(job, g) ==
  IF g.pc = "returned" THEN [job EXCEPT !.status = "completed", !.pdfUrl = g.result]
  ELSE IF g.pc = "thrown"
  THEN [job EXCEPT !.status = "pending", !.message = ErrorMessage(g.error)]
  ELSE job

\* mutant: completion also records a message
SettleJob_message(job, g) ==
  IF g.pc = "returned"
  THEN [job EXCEPT !.status = "completed", !.pdfUrl = g.result,
                   !.message = "PDF generation completed"]
  ELSE IF g.pc = "thrown"
  THEN [job EXCEPT !.status = "failed", !.message = ErrorMessage(g.error)]
  ELSE job

\* mutant: completion sets the status now and leaves the pdfUrl for a later tick
SettleJob_statusFirst(job, g) ==
  IF g.pc = "returned" THEN [job EXCEPT !.status = "completed"]
  ELSE IF g.pc = "thrown"
  THEN [job EXCEPT !.status = "failed", !.message = ErrorMessage(g.error)]
  ELSE job

\* mutant: settling a job releases the image references it was created with
SettleJob_dropsImages(job, g) ==
  IF g.pc = "returned"
  THEN [job EXCEPT !.status = "completed", !.pdfUrl = g.result, !.imageUrls = <<>>]
  ELSE IF g.pc = "thrown"
  THEN [job EXCEPT !.status = "failed", !.message = ErrorMessage(g.error),
                   !.imageUrls = <<>>]
  ELSE job

\* the continuation of generatePDF once generateColoringBookPDF has settled
SettleJob(job, g) ==
  IF g.pc = "returned" THEN [job EXCEPT !.status = "completed", !.pdfUrl = g.result]
  ELSE IF g.pc = "thrown"
  THEN [job EXCEPT !.status = "failed", !.message = ErrorMessage(g.error)]
  ELSE job

\* one await of job j's background invocation settles; when the invocation
\* returns or throws, the handler's continuation runs in the same tick
TaskStep(j, pc) ==
  /\ j \in DOMAIN tasks
  /\ tasks[j].pc = pc
  /\ \E g \in GenNext(env, tasks[j]) :
       /\ tasks' = [tasks EXCEPT ![j] = g]
       /\ pdfJobs' = [pdfJobs EXCEPT ![j] = SettleJob(@, g)]
       /\ hist' = [hist EXCEPT ![j] =
                     IF pdfJobs'[j].status # pdfJobs[j].status
                     THEN Append(@, pdfJobs'[j].status) ELSE @]
  /\ resp' = NoResp
  /\ UNCHANGED <<env, client, nextUuid, call>>
  /\ UNCHANGED procVars

S3Settles(j) == TaskStep(j, "s3")
HttpSettles(j) == TaskStep(j, "http")
WriteSettles(j) == TaskStep(j, "finish")
UploadSettles(j) == TaskStep(j, "upload")

\* a rejection value that is no Error instance (a string, say): it carries no
\* message, and `error instanceof Error` is false for it
NotAnError == [isError |-> FALSE, message |-> Undefined]

\* s3.upload rejects with a value that is no Error instance; the rethrow of
\* generateColoringBookPDF hands it to the handler's catch block
UploadRejectsValue(j) ==
  /\ j \in DOMAIN tasks
  /\ tasks[j].pc = "upload"
  /\ tasks' = [tasks EXCEPT ![j] = [@ EXCEPT !.pc = "thrown", !.error = NotAnError]]
  /\ pdfJobs' = [pdfJobs EXCEPT ![j] = SettleJob(@, tasks'[j])]
  /\ hist' = [hist EXCEPT ![j] = Append(@, pdfJobs'[j].status)]
  /\ resp' = NoResp
  /\ UNCHANGED <<env, client, nextUuid, call>>
  /\ UNCHANGED procVars

\* the body getPdfStatus answers with
PdfStatusResponse(table, id) ==
  IF ~HasEntry(table, id)
  THEN Response("getPdfStatus", 404, Undefined, Undefined, Undefined, "PDF job not found")
  ELSE LET job == Entry(table, id)
       IN  Response("getPdfStatus", 200, id, Prop(job, "status"),
                    IF Prop(job, "status") = "completed" /\ Prop(job, "pdfUrl") # Undefined
                    THEN Prop(job, "pdfUrl") ELSE Undefined,
                    Prop(job, "message"))

\* mutant: the poll that reports a completed job consumes its pdfUrl
GetPdfStatus_consumes(id) ==
  /\ resp' = PdfStatusResponse(pdfJobs, id)
  /\ pdfJobs' = IF id \in DOMAIN pdfJobs /\ pdfJobs[id].status = "completed"
                THEN [pdfJobs EXCEPT ![id].pdfUrl = Undefined] ELSE pdfJobs
  /\ UNCHANGED <<env, call, tasks, hist, nextUuid>>
  /\ UNCHANGED procVars

\* GET /api/pdfs/status/:jobId
GetPdfStatus(id) ==
  /\ resp' = PdfStatusResponse(pdfJobs, id)
  /\ UNCHANGED <<env, call>>
  /\ UNCHANGED pdfVars
  /\ UNCHANGED procVars

\* Object.entries(pdfJobs).filter(...).map(...): own entries in insertion order
UserJobs(table, userId, made) ==
  LET ids == [n \in 1..made |-> Uuid(n)]
      mine == SelectSeq(ids, LAMBDA id : table[id].userId = userId)
  IN  [k \in 1..Len(mine) |->
         [jobId |-> mine[k], status |-> table[mine[k]].status, title |-> table[mine[k]].title,
          pdfUrl |-> table[mine[k]].pdfUrl, imageCount |-> Len(table[mine[k]].imageUrls),
          createdAt |-> table[mine[k]].createdAt]]

\* mutant: the listing is answered without the test for a userId
ListUserPdfs_noAuthCheck ==
  /\ resp' = [Response("listUserPdfs", 200, Undefined, Undefined, Undefined, Undefined)
                EXCEPT !.pdfs = UserJobs(pdfJobs, AuthUserId(env), nextUuid)]
  /\ UNCHANGED <<env, client, call>>
  /\ UNCHANGED pdfVars
  /\ UNCHANGED procVars

\* GET /api/pdfs/list
ListUserPdfs ==
  /\ resp' = IF AuthUserId(env) = Undefined
             THEN Response("listUserPdfs", 401, Undefined, Undefined, Undefined,
                           "Authentication required")
             ELSE [Response("listUserPdfs", 200, Undefined, Undefined, Undefined, Undefined)
                     EXCEPT !.pdfs = UserJobs(pdfJobs, AuthUserId(env), nextUuid)]
  /\ UNCHANGED <<env, client, call>>
  /\ UNCHANGED pdfVars
  /\ UNCHANGED procVars

\* ------------------------------------------------- direct calls of the service
\* the arguments of a call that has not started yet
Called(imageUrls, title) == [Idle EXCEPT !.imageUrls = imageUrls, !.title = title, !.pc = "called"]

\* generateColoringBookPDF(imageUrls, title) is entered and runs to its first
\* await; an undefined title takes the parameter's default
CallStart ==
  /\ call.pc = "called"
  /\ call' = NewGen(call.imageUrls, OrElse(call.title, "My Coloring Book"), "pdf-0")
  /\ resp' = NoResp
  /\ UNCHANGED <<env, client>>
  /\ UNCHANGED pdfVars
  /\ UNCHANGED procVars

\* one await of a direct generateColoringBookPDF(imageUrls, title) call settles
CallStep(pc) ==
  /\ call.pc = pc
  /\ call' \in GenNext(env, call)
  /\ resp' = NoResp
  /\ UNCHANGED <<env, client>>
  /\ UNCHANGED pdfVars
  /\ UNCHANGED procVars

CallS3 == CallStep("s3")
CallHttp == CallStep("http")
CallWrite == CallStep("finish")
CallUpload == CallStep("upload")

\* -------------------------------------------------------- processController
\* `processed/${Date.now()}-processed.png`
Key(t) == "processed/" \o ToString(t) \o "-processed.png"

\* the three uuids processImage draws for its n-th job, and the one
\* convertToSketch draws for its output file
ProcJobId(n) == "proc-" \o ToString(n)
ProcessedImageId(n) == "img-" \o ToString(n)
OutputImageId(n) == "out-" \o ToString(n)

ProcRequestIds ==
  {ProcJobId(n) : n \in 1..MaxProcJobs} \cup ObjectPrototypeKeys \cup {"not-a-real-id"}

\* openai.images.edit resolves with b64_json, or something on the way throws
ConvertOutcomes == {"ok", "throws"}

\* the record stored under a fresh jobId, after `status = 'processing'`
NewProcJob(n) ==
  [originalImageId |-> "orig-" \o ToString(n), processedImageId |-> ProcessedImageId(n),
   status |-> "processing", message |-> Undefined, base64Image |-> Undefined]

\* POST /api/uploads/process, up to the await inside convertToSketch
ProcessImage(hasFile) ==
  /\ IF ~hasFile
     THEN /\ resp' = Response("processImage", 400, Undefined, Undefined, Undefined,
                              "No file provided")
          /\ UNCHANGED procVars
     ELSE /\ nextProc < MaxProcJobs
          /\ LET n == nextProc + 1
                 jobId == ProcJobId(n)
             IN  /\ processingJobs' = Store(processingJobs, jobId, NewProcJob(n))
                 /\ converts' = Store(converts, jobId, [pc |-> "openai", n |-> n])
                 /\ nextProc' = n
                 /\ resp' = Response("processImage", 202, jobId, "pending", Undefined,
                                     "Image processing started")
          /\ UNCHANGED <<confirms, tempFiles>>
  /\ UNCHANGED <<env, client, now, objects, call, bucket, canceled>>
  /\ UNCHANGED pdfVars

\* cleanupTempFiles(imageId): unlinks <imageId>_output.png when it exists
CleanupTempFiles(files, imageId) ==
  IF imageId = Undefined THEN files ELSE files \ {imageId}

\* mutant: the continuation stores a record again when it finds none
ConvertSettles_recreates(j, out) ==
  /\ j \in DOMAIN converts
  /\ converts[j].pc = "openai"
  /\ tempFiles' = IF out = "ok" THEN tempFiles \cup {OutputImageId(converts[j].n)}
                  ELSE tempFiles
  /\ IF j \in DOMAIN processingJobs
     THEN /\ processingJobs' =
               [processingJobs EXCEPT ![j] =
                  IF out = "ok"
                  THEN [@ EXCEPT !.status = "completed", !.base64Image = "b64",
                                 !.processedImageId = ProcessedImageId(converts[j].n)]
                  ELSE [@ EXCEPT !.status = "failed", !.message = "convert failed"]]
          /\ converts' = [converts EXCEPT ![j].pc = "done"]
     ELSE /\ processingJobs' =
               Store(processingJobs, j,
                     [NewProcJob(converts[j].n) EXCEPT
                        !.status = IF out = "ok" THEN "completed" ELSE "failed"])
          /\ converts' = [converts EXCEPT ![j].pc = "done"]
  /\ resp' = NoResp
  /\ UNCHANGED <<env, client, now, objects, call, confirms, nextProc, bucket, canceled>>
  /\ UNCHANGED pdfVars

\* convertToSketch settles and processImage continues.  On success the output
\* file <outputImageId>_output.png has been written.  When the record is gone
\* the assignment to processingJobs[jobId].status throws a TypeError in the try
\* block and again in its catch block; the outer catch then answers 500 on a
\* response that was already sent, which throws out of the handler.
ConvertSettles(j, out) ==
  /\ j \in DOMAIN converts
  /\ converts[j].pc = "openai"
  /\ tempFiles' = IF out = "ok" THEN tempFiles \cup {OutputImageId(converts[j].n)}
                  ELSE tempFiles
  /\ IF j \in DOMAIN processingJobs
     THEN /\ processingJobs' =
               [processingJobs EXCEPT ![j] =
                  IF out = "ok"
                  THEN [@ EXCEPT !.status = "completed", !.base64Image = "b64",
                                 !.processedImageId = ProcessedImageId(converts[j].n)]
                  ELSE [@ EXCEPT !.status = "failed", !.message = "convert failed"]]
          /\ converts' = [converts EXCEPT ![j].pc = "done"]
     ELSE /\ UNCHANGED processingJobs
          /\ converts' = [converts EXCEPT ![j].pc = "unhandledRejection"]
  /\ resp' = NoResp
  /\ UNCHANGED <<env, client, now, objects, call, confirms, nextProc, bucket, canceled>>
  /\ UNCHANGED pdfVars

\* GET /api/uploads/process/status/:jobId
GetProcessingStatus(id) ==
  /\ resp' = IF ~HasEntry(processingJobs, id)
             THEN Response("getProcessingStatus", 404, Undefined, Undefined, Undefined,
                           "Processing job not found")
             ELSE LET job == Entry(processingJobs, id)
                  IN  Response("getProcessingStatus", 200, id, Prop(job, "status"),
                               Undefined, Prop(job, "message"))
  /\ UNCHANGED <<env, client, call>>
  /\ UNCHANGED pdfVars
  /\ UNCHANGED procVars

\* GET /api/uploads/process/image/:jobId
GetProcessedImage(id) ==
  /\ resp' =
       IF ~HasEntry(processingJobs, id)
       THEN Response("getProcessedImage", 404, Undefined, Undefined, Undefined,
                     "Processing job not found")
       ELSE LET job == Entry(processingJobs, id)
            IN  IF Prop(job, "status") # "completed"
                THEN Response("getProcessedImage", 400, Undefined, Prop(job, "status"),
                              Undefined, "Image processing not completed")
                ELSE IF Prop(job, "base64Image") # Undefined
                THEN Response("getProcessedImage", 200, Undefined, Undefined, Undefined,
                              Undefined)
                ELSE IF Prop(job, "processedImageId") = Undefined
                THEN Response("getProcessedImage", 404, Undefined, Undefined, Undefined,
                              "No processed image ID found")
                ELSE IF Prop(job, "processedImageId") \notin tempFiles
                THEN Response("getProcessedImage", 404, Undefined, Undefined, Undefined,
                              "Processed image not found")
                ELSE Response("getProcessedImage", 200, Undefined, Undefined, Undefined,
                              Undefined)
  /\ UNCHANGED <<env, client, call>>
  /\ UNCHANGED pdfVars
  /\ UNCHANGED procVars

\* mutant: the upload is started for a stored job whatever its status
ConfirmProcessedImage_anyStatus(id) ==
  /\ IF ~HasEntry(processingJobs, id)
     THEN /\ resp' = Response("confirmProcessedImage", 404, Undefined, Undefined, Undefined,
                              "Processing job not found")
          /\ UNCHANGED confirms
     ELSE LET job == Entry(processingJobs, id)
          IN  IF Prop(job, "status") = Undefined
              THEN /\ resp' = Response("confirmProcessedImage", 400, Undefined,
                                       Prop(job, "status"), Undefined,
                                       "Image processing not completed")
                   /\ UNCHANGED confirms
              ELSE /\ id \notin DOMAIN confirms
                   /\ confirms' = Store(confirms, id, [job |-> job, key |-> Key(now)])
                   /\ resp' = NoResp
  /\ UNCHANGED <<env, client, now, objects, call, processingJobs, converts, tempFiles, nextProc, bucket, canceled>>
  /\ UNCHANGED pdfVars

\* POST /api/uploads/process/confirm/:jobId, up to the await of s3.upload.
\* At most one confirm of a job is kept in flight at a time.
ConfirmProcessedImage(id) ==
  /\ IF ~HasEntry(processingJobs, id)
     THEN /\ resp' = Response("confirmProcessedImage", 404, Undefined, Undefined, Undefined,
                              "Processing job not found")
          /\ UNCHANGED confirms
     ELSE LET job == Entry(processingJobs, id)
          IN  IF Prop(job, "status") # "completed"
              THEN /\ resp' = Response("confirmProcessedImage", 400, Undefined,
                                       Prop(job, "status"), Undefined,
                                       "Image processing not completed")
                   /\ UNCHANGED confirms
              ELSE /\ id \notin DOMAIN confirms
                   /\ confirms' = Store(confirms, id, [job |-> job, key |-> Key(now)])
                   /\ resp' = NoResp
  /\ UNCHANGED <<env, client, now, objects, call, processingJobs, converts, tempFiles, nextProc, bucket, canceled>>
  /\ UNCHANGED pdfVars

\* the URL confirmProcessedImage answers with: LocalStack's in development with
\* AWS_ENDPOINT set, the bucket's own otherwise
ProcessedUrl(e, key) ==
  IF e.NODE_ENV = "development"
  THEN "http://localstack:4566/coloringbook-processed/" \o key
  ELSE "https://coloringbook-processed.s3.amazonaws.com/" \o key

\* the mapping without key id: delete table[id]
Delete(table, id) == [k \in DOMAIN table \ {id} |-> table[k]]

\* mutant: the record is removed whether or not the upload succeeded
ConfirmSettles_alwaysDeletes(j, out) ==
  /\ j \in DOMAIN confirms
  /\ IF out = "ok"
     THEN /\ tempFiles' = CleanupTempFiles(tempFiles, confirms[j].job.processedImageId)
          /\ processingJobs' = Delete(processingJobs, j)
          /\ bucket' = bucket \cup {j}
          /\ objects' = Store(objects, confirms[j].key, j)
          /\ resp' = Response("confirmProcessedImage", 200, Undefined, Undefined,
                              ProcessedUrl(env, confirms[j].key),
                              "Image confirmed and uploaded to S3")
     ELSE /\ resp' = Response("confirmProcessedImage", 500, Undefined, Undefined, Undefined,
                              "Server error confirming processed image")
          /\ processingJobs' = Delete(processingJobs, j)
          /\ UNCHANGED <<tempFiles, bucket, objects>>
  /\ confirms' = Delete(confirms, j)
  /\ UNCHANGED <<env, client, now, call, converts, nextProc, canceled>>
  /\ UNCHANGED pdfVars

\* s3.upload settles and confirmProcessedImage continues
ConfirmSettles(j, out) ==
  /\ j \in DOMAIN confirms
  /\ IF out = "ok"
     THEN /\ tempFiles' = CleanupTempFiles(tempFiles, confirms[j].job.processedImageId)
          /\ processingJobs' = Delete(processingJobs, j)
          /\ bucket' = bucket \cup {j}
          /\ objects' = Store(objects, confirms[j].key, j)
          /\ resp' = Response("confirmProcessedImage", 200, Undefined, Undefined,
                              ProcessedUrl(env, confirms[j].key),
                              "Image confirmed and uploaded to S3")
     ELSE /\ resp' = Response("confirmProcessedImage", 500, Undefined, Undefined, Undefined,
                              "Server error confirming processed image")
          /\ UNCHANGED <<processingJobs, tempFiles, bucket, objects>>
  /\ confirms' = Delete(confirms, j)
  /\ UNCHANGED <<env, client, now, call, converts, nextProc, canceled>>
  /\ UNCHANGED pdfVars

\* mutant: a job that is completed or failed is not cancelled
CancelProcessing_onlyInFlight(id) ==
  /\ IF ~HasEntry(processingJobs, id)
     THEN /\ resp' = Response("cancelProcessing", 404, Undefined, Undefined, Undefined,
                              "Processing job not found")
          /\ UNCHANGED <<processingJobs, tempFiles, canceled>>
     ELSE LET job == Entry(processingJobs, id)
          IN  IF Prop(job, "status") \in {"completed", "failed"}
              THEN /\ resp' = Response("cancelProcessing", 400, Undefined, Undefined,
                                       Undefined, "Processing job already finished")
                   /\ UNCHANGED <<processingJobs, tempFiles, canceled>>
              ELSE /\ tempFiles' = CleanupTempFiles(tempFiles, Prop(job, "processedImageId"))
                   /\ processingJobs' = Delete(processingJobs, id)
                   /\ canceled' = canceled \cup (DOMAIN processingJobs \cap {id})
                   /\ resp' = Response("cancelProcessing", 200, id, Undefined, Undefined,
                                       "Processing job canceled")
  /\ UNCHANGED <<env, client, now, objects, call, converts, confirms, nextProc, bucket>>
  /\ UNCHANGED pdfVars

\* DELETE /api/uploads/process/cancel/:jobId
CancelProcessing(id) ==
  /\ IF ~HasEntry(processingJobs, id)
     THEN /\ resp' = Response("cancelProcessing", 404, Undefined, Undefined, Undefined,
                              "Processing job not found")
          /\ UNCHANGED <<processingJobs, tempFiles, canceled>>
     ELSE LET job == Entry(processingJobs, id)
          IN  /\ tempFiles' = CleanupTempFiles(tempFiles, Prop(job, "processedImageId"))
              /\ processingJobs' = Delete(processingJobs, id)
              /\ canceled' = canceled \cup (DOMAIN processingJobs \cap {id})
              /\ resp' = Response("cancelProcessing", 200, id, Undefined, Undefined,
                                  "Processing job canceled")
  /\ UNCHANGED <<env, client, now, objects, call, converts, confirms, nextProc, bucket>>
  /\ UNCHANGED pdfVars

\* ------------------------------------------------- frontend: ImageUploader
\* the component after its first render: no PDF job, nothing polled yet
ImageUploader ==
  [mounted |-> TRUE, pdfJobId |-> Undefined, pdfStatus |-> Undefined, pdfUrl |-> Undefined,
   polls |-> 0, lastPolled |-> Undefined]

\* handleUpload: POST /pdfs/generate with the processed images' URLs and the
\* title 'My Custom Coloring Book'.  A 202 sets pdfJobId, which restarts the
\* polling effect for the new job; any other answer is thrown by axios and
\* caught.
HandleUpload(urls) ==
  /\ client.mounted
  /\ GeneratePDF(ArrayBody(urls), "My Custom Coloring Book")
  /\ client' = IF resp'.code = 202
               THEN [client EXCEPT !.pdfJobId = resp'.jobId, !.pdfStatus = "pending",
                                   !.pdfUrl = Undefined, !.lastPolled = Undefined]
               ELSE [client EXCEPT !.pdfStatus = "failed", !.pdfUrl = Undefined]

\* checkStatus, called once when pdfJobId is set and then by setInterval every
\* 3000 ms until the effect's cleanup runs: GET /pdfs/status/:jobId and the
\* state updates that follow the answer
CheckStatus ==
  /\ client.mounted
  /\ client.pdfJobId # Undefined
  /\ client.polls < MaxPolls
  /\ GetPdfStatus(client.pdfJobId)
  /\ client' = IF resp'.code = 200
               THEN [client EXCEPT !.polls = @ + 1, !.lastPolled = resp'.status,
                                   !.pdfStatus = resp'.status,
                                   !.pdfUrl = IF resp'.status = "completed"
                                                 /\ resp'.pdfUrl # Undefined
                                              THEN resp'.pdfUrl ELSE @]
               ELSE [client EXCEPT !.polls = @ + 1]

\* the component is unmounted: the effect's cleanup clears the interval
Unmount ==
  /\ client.mounted
  /\ client' = [client EXCEPT !.mounted = FALSE]
  /\ resp' = NoResp
  /\ UNCHANGED <<env, call>>
  /\ UNCHANGED pdfVars
  /\ UNCHANGED procVars

\* ------------------------------------------------------------ specifications
InitCommon ==
  /\ env \in Envs
  /\ pdfJobs = <<>>
  /\ tasks = <<>>
  /\ hist = <<>>
  /\ nextUuid = 0
  /\ resp = NoResp
  /\ processingJobs = <<>>
  /\ converts = <<>>
  /\ confirms = <<>>
  /\ tempFiles = {}
  /\ nextProc = 0
  /\ bucket = {}
  /\ canceled = {}
  /\ now = 0
  /\ objects = <<>>
  /\ client = ImageUploader

\* the server after start-up
Init == InitCommon /\ call = Idle

\* the PDF job tracker with several jobs in flight
Next ==
  \/ \E body \in SubmitBodies : GeneratePDF(body, Undefined) /\ UNCHANGED client
  \/ \E j \in DOMAIN tasks : S3Settles(j)
  \/ \E j \in DOMAIN tasks : HttpSettles(j)
  \/ \E j \in DOMAIN tasks : WriteSettles(j)
  \/ \E j \in DOMAIN tasks : UploadSettles(j)
  \/ \E id \in RequestIds : GetPdfStatus(id) /\ UNCHANGED client
  \/ ListUserPdfs

Spec == Init /\ [][Next]_vars

\* the PDF job tracker with one submission accepted, over every kind of reference
NextJob ==
  \/ nextUuid = 0 /\ \E body \in JobBodies, title \in Titles :
       GeneratePDF(body, title) /\ UNCHANGED client
  \/ \E j \in DOMAIN tasks : S3Settles(j)
  \/ \E j \in DOMAIN tasks : HttpSettles(j)
  \/ \E j \in DOMAIN tasks : WriteSettles(j)
  \/ \E j \in DOMAIN tasks : UploadSettles(j)
  \/ \E j \in DOMAIN tasks : UploadRejectsValue(j)
  \/ \E id \in RequestIds : GetPdfStatus(id) /\ UNCHANGED client
  \/ ListUserPdfs

SpecJob == Init /\ [][NextJob]_vars

\* fs.createWriteStream's stream emits 'error' (the open fails, the disk fills)
\* while the invocation is suspended at an await inside the image loop.  The
\* listeners of lines 211-212 are not attached yet and doc.pipe's own listener
\* re-emits on a stream without listeners, so the error is thrown as an
\* uncaught exception: the process exits and the invocation never settles.
WriteStreamErrors(j) ==
  /\ j \in DOMAIN tasks
  /\ tasks[j].pc \in {"s3", "http"}
  /\ tasks' = [tasks EXCEPT ![j].pc = "uncaught"]
  /\ resp' = NoResp
  /\ UNCHANGED <<env, client, pdfJobs, hist, nextUuid, call>>
  /\ UNCHANGED procVars

\* the process has exited on an uncaught exception
Exited == \E j \in DOMAIN tasks : tasks[j].pc = "uncaught"

\* the PDF job tracker while its process runs, with write-stream errors at any
\* time after the stream is created
NextLive ==
  \/ ~Exited /\ Next
  \/ ~Exited /\ \E j \in DOMAIN tasks : WriteStreamErrors(j)

\* every storage read, HTTP fetch, file write and upload that is awaited
\* eventually returns or throws, and its continuation is run
Fairness ==
  \A n \in 1..MaxJobs :
    /\ WF_vars(~Exited /\ S3Settles(Uuid(n)))
    /\ WF_vars(~Exited /\ HttpSettles(Uuid(n)))
    /\ WF_vars(~Exited /\ WriteSettles(Uuid(n)))
    /\ WF_vars(~Exited /\ UploadSettles(Uuid(n)))

SpecLive == Init /\ [][NextLive]_vars /\ Fairness

\* a direct call generateColoringBookPDF(imageUrls, title) of the service
InitCompose ==
  /\ InitCommon
  /\ \E urls \in SeqsUpTo(RefKinds, MaxCallImages), title \in Titles :
       call = Called(urls, title)

NextCompose == CallStart \/ CallS3 \/ CallHttp \/ CallWrite \/ CallUpload

SpecCompose == InitCompose /\ [][NextCompose]_vars

\* the image-processing job tracker
NextProc ==
  \/ \E hasFile \in BOOLEAN : ProcessImage(hasFile)
  \/ \E j \in DOMAIN converts, out \in ConvertOutcomes : ConvertSettles(j, out)
  \/ \E id \in ProcRequestIds : GetProcessingStatus(id)
  \/ \E id \in ProcRequestIds : GetProcessedImage(id)
  \/ \E id \in ProcRequestIds : ConfirmProcessedImage(id)
  \/ \E j \in DOMAIN confirms, out \in UploadOutcomes : ConfirmSettles(j, out)
  \/ \E id \in ProcRequestIds : CancelProcessing(id)

SpecProc == Init /\ [][NextProc]_vars

\* a millisecond passes: Date.now() returns the next value
Tick ==
  /\ now < MaxClock
  /\ now' = now + 1
  /\ resp' = NoResp
  /\ UNCHANGED <<env, call, client>>
  /\ UNCHANGED pdfVars
  /\ UNCHANGED <<processingJobs, converts, confirms, tempFiles, nextProc, bucket, canceled,
                 objects>>

\* the image-processing job tracker over time.  SpecProc is this tracker within
\* one millisecond; the clock decides the storage key of a confirm and nothing
\* else.
NextConfirm ==
  \/ NextProc
  \/ Tick

SpecConfirm == Init /\ [][NextConfirm]_vars

\* one ImageUploader component, its PDF submissions and the server's tracker
NextClient ==
  \/ \E urls \in SeqsUpTo(SubmitRefs, MaxImages) : Len(urls) > 0 /\ HandleUpload(urls)
  \/ CheckStatus
  \/ Unmount
  \/ \E j \in DOMAIN tasks : S3Settles(j)
  \/ \E j \in DOMAIN tasks : HttpSettles(j)
  \/ \E j \in DOMAIN tasks : WriteSettles(j)
  \/ \E j \in DOMAIN tasks : UploadSettles(j)

SpecClient == Init /\ [][NextClient]_vars

\* ------------------------------------------------------------------ claims
Terminal == {"completed", "failed"}

\* C1: the values assigned to a PDF job's status field follow
\* pending -> processing -> completed or pending -> processing -> failed, and
\* the record's status is the last value assigned.
C1_StatusPath ==
  \A j \in DOMAIN pdfJobs :
    /\ hist[j] \in {<<"pending", "processing">>,
                    <<"pending", "processing", "completed">>,
                    <<"pending", "processing", "failed">>}
    /\ pdfJobs[j].status = hist[j][Len(hist[j])]

C1_Witness ==
  \E j, k \in DOMAIN pdfJobs :
    /\ hist[j] = <<"pending", "processing", "completed">>
    /\ hist[k] = <<"pending", "processing", "failed">>

\* C2: once a PDF job's status is completed or failed, no step changes any
\* field of its record or removes it.
C2_TerminalImmutable ==
  [][\A j \in DOMAIN pdfJobs :
       pdfJobs[j].status \in Terminal =>
         (j \in DOMAIN pdfJobs' /\ pdfJobs'[j] = pdfJobs[j])]_vars

\* a poll has answered for a completed job while another job has failed
C2_Witness ==
  \E j, k \in DOMAIN pdfJobs :
    /\ pdfJobs[j].status = "completed"
    /\ pdfJobs[k].status = "failed"
    /\ resp.handler = "getPdfStatus" /\ resp.jobId = j /\ resp.status = "completed"

\* C3: a job has a pdfUrl only when completed, a message only when failed,
\* never both, and neither while pending or processing.
C3_ResultFields ==
  \A j \in DOMAIN pdfJobs :
    /\ pdfJobs[j].pdfUrl # Undefined => pdfJobs[j].status = "completed"
    /\ pdfJobs[j].message # Undefined => pdfJobs[j].status = "failed"
    /\ ~(pdfJobs[j].pdfUrl # Undefined /\ pdfJobs[j].message # Undefined)
    /\ pdfJobs[j].status \in {"pending", "processing"} =>
         (pdfJobs[j].pdfUrl = Undefined /\ pdfJobs[j].message = Undefined)

C3_Witness ==
  \E j, k \in DOMAIN pdfJobs :
    /\ pdfJobs[j].status = "completed" /\ pdfJobs[j].pdfUrl # Undefined
    /\ pdfJobs[k].status = "failed" /\ pdfJobs[k].message # Undefined

\* C4 as stated: neither the submit response nor a status poll for a job
\* reports status pending.
C4_NoResponsePending ==
  (resp.handler \in {"generatePDF", "getPdfStatus"} /\ resp.jobId \in DOMAIN pdfJobs)
    => resp.status # "pending"

\* C4 amended: no record is at pending between two steps and no status poll
\* reports pending; the 202 submit response carries the literal pending while
\* the record it names is already at processing.
C4_OnlySubmitReportsPending ==
  /\ \A j \in DOMAIN pdfJobs : pdfJobs[j].status # "pending"
  /\ (resp.handler = "getPdfStatus" /\ resp.jobId \in DOMAIN pdfJobs)
       => resp.status \in {"processing", "completed", "failed"}
  /\ (resp.handler = "generatePDF" /\ resp.code = 202)
       => (resp.status = "pending" /\ pdfJobs[resp.jobId].status = "processing")

C4_Witness ==
  resp.handler = "getPdfStatus" /\ resp.jobId \in DOMAIN pdfJobs /\ resp.status = "processing"

\* C5: a submission whose imageUrls is missing, not an array or empty is
\* answered 400 and changes neither the job table nor the background work.
C5_RejectsNoImages ==
  [][\A body \in SubmitBodies :
       (GeneratePDF(body, Undefined)
          /\ (~body.truthy \/ ~body.isArray \/ body.items = <<>>))
       => (resp'.code = 400 /\ UNCHANGED pdfVars)]_vars

C5_Witness ==
  /\ resp.handler = "generatePDF" /\ resp.code = 400
  /\ resp.message = "No image URLs provided"
  /\ DOMAIN pdfJobs # {}

\* C6 as stated: every submission with a non-empty array of image references
\* is accepted, creates a job and returns its jobId.
C6_NonEmptyAccepted ==
  [][\A body \in SubmitBodies :
       (GeneratePDF(body, Undefined) /\ body.isArray /\ body.items # <<>>)
       => (resp'.code = 202 /\ resp'.jobId \in DOMAIN pdfJobs' \ DOMAIN pdfJobs)]_vars

\* C6 amended: a submission is answered 400 and changes nothing exactly when
\* imageUrls is missing, not an array, empty, or shorter than the configured
\* MIN_IMAGES_REQUIRED (8 when unset); any other is answered 202 with the
\* jobId of a new record that holds the submitted references.
C6_AcceptedFromMinimum ==
  [][\A body \in SubmitBodies :
       GeneratePDF(body, Undefined) =>
         LET min == IF env.MIN_IMAGES_REQUIRED = Undefined THEN 8 ELSE 2
         IN  IF ~body.truthy \/ ~body.isArray \/ Len(body.items) = 0
                \/ Len(body.items) < min
             THEN resp'.code = 400 /\ UNCHANGED pdfVars
             ELSE /\ resp'.code = 202
                  /\ resp'.jobId \in DOMAIN pdfJobs' \ DOMAIN pdfJobs
                  /\ pdfJobs'[resp'.jobId].imageUrls = body.items]_vars

C6_Witness ==
  /\ resp.handler = "generatePDF" /\ resp.code = 202
  /\ Len(pdfJobs[resp.jobId].imageUrls) = 2

\* C7: a status poll that is not answered 404 names a job of the table.
C7_UnknownIdNotFound ==
  (resp.handler = "getPdfStatus" /\ resp.code # 404) => resp.jobId \in DOMAIN pdfJobs

\* references that resolve and decode
GoodRefs == {"data_valid", "url_s3", "url_http"}

\* the document of the direct call is complete: doc.end() has run
CallComposed == call.pc \in {"finish", "upload", "returned", "thrown"}

C9_OnePagePerImage ==
  LET N == Len(call.imageUrls)
  IN  CallComposed =>
        /\ Len(call.pages) = N + 1
        /\ \A i \in 0..(N - 1) :
             call.imageUrls[i + 1] \notin GoodRefs =>
               (~call.pages[i + 2].cover /\ call.pages[i + 2].placeholder = i + 1)

\* C10: a job fails only because writing or publishing the document threw;
\* when both succeed the job is completed, whichever images failed.
C10_ImageFailuresDoNotFailJob ==
  \A j \in DOMAIN pdfJobs :
    /\ tasks[j].pc = "returned" => pdfJobs[j].status = "completed"
    /\ pdfJobs[j].status = "failed" =>
         (tasks[j].pc = "thrown"
            /\ pdfJobs[j].message \in {"write failed", "upload failed", "Unknown error"})

\* a job whose every image failed, some to resolve and some to decode, completed
C10_Witness ==
  \E j \in DOMAIN pdfJobs :
    /\ pdfJobs[j].status = "completed"
    /\ \A k \in 1..Len(pdfJobs[j].imageUrls) : pdfJobs[j].imageUrls[k] \notin GoodRefs
    /\ \E k \in 1..Len(pdfJobs[j].imageUrls) : pdfJobs[j].imageUrls[k] = "url_dead"
    /\ \E k \in 1..Len(pdfJobs[j].imageUrls) : pdfJobs[j].imageUrls[k] = "data_corrupt"

\* C11: when the write of the document or its upload throws, the job is failed,
\* its message is the thrown Error's message, or 'Unknown error' when the
\* thrown value is no Error, it has no pdfUrl, and nothing restarts the
\* invocation: the task and the record stay as the throw left them.
C11_ThrowFailsJob ==
  [][\A j \in DOMAIN tasks' :
       tasks'[j].pc = "thrown" =>
         /\ pdfJobs'[j].status = "failed"
         /\ pdfJobs'[j].message =
              (IF tasks'[j].error.isError THEN tasks'[j].error.message
               ELSE "Unknown error")
         /\ pdfJobs'[j].pdfUrl = Undefined
         /\ tasks'[j].result = Undefined
         /\ (j \in DOMAIN tasks /\ tasks[j].pc = "thrown") =>
              (tasks'[j] = tasks[j] /\ pdfJobs'[j] = pdfJobs[j])]_vars

\* a poll has reported the upload's error message for the failed job
C11_Witness ==
  \E j \in DOMAIN tasks :
    /\ tasks[j].pc = "thrown" /\ tasks[j].error = JsError("upload failed")
    /\ resp.handler = "getPdfStatus" /\ resp.jobId = j
    /\ resp.status = "failed" /\ resp.message = "upload failed"

\* C12 as stated: once a job is completed or failed, the temporary PDF file its
\* invocation wrote is gone.
C12_NoTempFileAfterSettle ==
  \A j \in DOMAIN pdfJobs :
    pdfJobs[j].status \in Terminal => ~tasks[j].tmp

\* C13 as stated: under fair settling of every awaited operation, every
\* accepted PDF job eventually is completed or failed.
C13_EveryJobSettles ==
  \A n \in 1..MaxJobs :
    (Uuid(n) \in DOMAIN pdfJobs)
      ~> (Uuid(n) \in DOMAIN pdfJobs /\ pdfJobs[Uuid(n)].status \in Terminal)

\* C14: a step that answers a status poll or a listing leaves the job table and
\* the background work unchanged; and from the moment a job is completed its
\* status and pdfUrl stay fixed and every poll for it answers exactly that
\* status and that pdfUrl, so any two polls after completion answer alike.
C14_PollingHasNoEffect ==
  [][/\ resp'.handler \in {"getPdfStatus", "listUserPdfs"} => UNCHANGED pdfVars
     /\ \A j \in DOMAIN pdfJobs :
          pdfJobs[j].status = "completed" =>
            /\ pdfJobs'[j].status = "completed"
            /\ pdfJobs'[j].pdfUrl = pdfJobs[j].pdfUrl
            /\ (resp'.handler = "getPdfStatus" /\ resp'.jobId = j) =>
                 /\ resp'.code = 200
                 /\ resp'.status = "completed"
                 /\ resp'.pdfUrl = pdfJobs[j].pdfUrl
                 /\ resp'.pdfUrl # Undefined]_vars

\* a poll has answered completed with the job's pdfUrl while another job is
\* still being composed
C14_Witness ==
  \E j, k \in DOMAIN pdfJobs :
    /\ resp.handler = "getPdfStatus" /\ resp.jobId = j /\ resp.code = 200
    /\ resp.status = "completed" /\ resp.pdfUrl = pdfJobs[j].pdfUrl
    /\ pdfJobs[k].status = "processing" /\ tasks[k].pc = "upload"

\* C15: whatever the background work is doing, a status poll that reports
\* completed carries the pdfUrl and one that reports failed carries a message.
C15_PollSeesWholeTransition ==
  resp.handler = "getPdfStatus" =>
    /\ resp.status = "completed" => resp.pdfUrl # Undefined
    /\ resp.status = "failed" => resp.message # Undefined

\* a poll has reported a job failed by a thrown value that is no Error
C15_Witness ==
  /\ resp.handler = "getPdfStatus" /\ resp.jobId \in DOMAIN pdfJobs
  /\ resp.status = "failed" /\ resp.message = "Unknown error"

\* C16 as stated: a cancel request for a processing job that is already
\* completed or failed is not honoured and leaves the record in place.
C16_NoCancelAfterSettle ==
  [][\A id \in DOMAIN processingJobs :
       (CancelProcessing(id) /\ processingJobs[id].status \in Terminal)
         => (resp'.code # 200 /\ processingJobs' = processingJobs)]_vars

\* C16 amended: a cancel request for a stored job is honoured at every status,
\* completed and failed included: it answers 200, removes that record and
\* leaves every other record as it was.
C16_CancelAtAnyStatus ==
  [][\A id \in DOMAIN processingJobs :
       CancelProcessing(id) =>
         /\ resp'.code = 200 /\ resp'.jobId = id
         /\ DOMAIN processingJobs' = DOMAIN processingJobs \ {id}
         /\ \A k \in DOMAIN processingJobs' : processingJobs'[k] = processingJobs[k]]_vars

\* a cancel has just removed a job whose conversion had settled into its record
C16_Witness ==
  \E id \in DOMAIN converts :
    /\ converts[id].pc = "done"
    /\ resp.handler = "cancelProcessing" /\ resp.code = 200 /\ resp.jobId = id
    /\ id \notin DOMAIN processingJobs

\* C17: once a cancel has removed a job's record, the table never holds a
\* record under that id again, whatever the job's conversion does when it
\* settles, and every later status, image, confirm or cancel request for the
\* id is answered 404.
C17_CanceledStaysGone ==
  [][\A id \in canceled :
       /\ id \notin DOMAIN processingJobs
       /\ id \notin DOMAIN processingJobs'
       /\ (GetProcessingStatus(id) \/ GetProcessedImage(id)
             \/ ConfirmProcessedImage(id) \/ CancelProcessing(id))
            => resp'.code = 404]_vars

\* the conversion of a canceled job has settled, no record came back, and a
\* status request has since been answered 404
C17_Witness ==
  \E id \in canceled :
    /\ converts[id].pc = "unhandledRejection"
    /\ id \notin DOMAIN processingJobs
    /\ resp.handler = "getProcessingStatus" /\ resp.code = 404

\* C18 as stated: no continuation of processImage lets an exception escape its
\* handler, nor writes a second response for the submit request it has already
\* answered 202; every conversion that has settled was recorded in its job.
C18_NoEscapedException ==
  \A j \in DOMAIN converts : converts[j].pc \in {"openai", "done"}

\* C19 as stated: once a job whose conversion has finished is canceled or
\* confirmed, the output image file that conversion wrote no longer exists.
C19_OutputFileRemoved ==
  \A j \in DOMAIN converts :
    (converts[j].pc = "done" /\ (j \in canceled \/ j \in bucket))
      => OutputImageId(converts[j].n) \notin tempFiles

\* C20 as stated: once a cancel has removed a job's record, no upload for that
\* job is started, none stores its image in the bucket, and no confirm request
\* for it is answered 200, an upload in flight at the cancel included.
C20_NoEffectAfterCancel ==
  [][\A j \in canceled :
       /\ j \in DOMAIN confirms' => j \in DOMAIN confirms
       /\ j \in bucket' => j \in bucket
       /\ ~ConfirmSettles(j, "ok")]_vars

\* the document holds the page content of image k: the image itself or the
\* placeholder text `Unable to process image ${k + 1}`
Emitted(g, k) ==
  \E p \in 1..Len(g.pages) : g.pages[p].image = k \/ g.pages[p].placeholder = k + 1

\* C21: while the invocation waits for storage or the web it is resolving
\* image i, the content of every image before i is in the document and that of
\* no image from i on is; the upload starts only from the settled write of the
\* file, with the content of every image in the document.
C21_OneImageAtATime ==
  [][LET g == call'
         N == Len(g.imageUrls)
     IN  /\ g.pc \in {"s3", "http"} =>
              /\ g.i < N
              /\ \A k \in 0..(N - 1) : Emitted(g, k) <=> k < g.i
         /\ g.pc \in {"finish", "upload"} =>
              (g.i = N /\ \A k \in 0..(N - 1) : Emitted(g, k))
         /\ g.pc = "upload" => call.pc = "finish"]_vars

\* the third image is being fetched over HTTP with the first two in the document
C21_Witness ==
  /\ call.pc = "http" /\ call.i = 2
  /\ Emitted(call, 0) /\ Emitted(call, 1) /\ ~Emitted(call, 2)

\* the reference the invocation is working on
CurrentRef(g) == g.imageUrls[g.i + 1]

\* the step leaves the invocation waiting on a request for an image it was not
\* waiting on before: the first request made for that image
FirstRequest(g, h) ==
  /\ h.pc \in {"s3", "http"}
  /\ ~(g.pc \in {"s3", "http"} /\ g.i = h.i)

C23_FootersMatchPages ==
  CallComposed =>
    \A p \in 1..Len(call.pages) :
      /\ call.pages[p].footer # <<>> => call.pages[p].footer = <<p, Len(call.pages)>>
      /\ call.pages[p].image >= 0 => call.pages[p].footer[1] = call.pages[p].image + 2

\* C24: a stored PDF job keeps its imageUrls, title, userId and createdAt; its
\* record changes only in the step in which its own invocation returns or
\* throws, and that step changes the record of no other job.
C24_SingleWriter ==
  [][\A j \in DOMAIN pdfJobs :
       /\ j \in DOMAIN pdfJobs'
       /\ pdfJobs'[j].imageUrls = pdfJobs[j].imageUrls
       /\ pdfJobs'[j].title = pdfJobs[j].title
       /\ pdfJobs'[j].userId = pdfJobs[j].userId
       /\ pdfJobs'[j].createdAt = pdfJobs[j].createdAt
       /\ pdfJobs'[j] # pdfJobs[j] =>
            /\ tasks[j].pc \in {"finish", "upload"}
            /\ tasks'[j].pc \in {"returned", "thrown"}
            /\ \A k \in DOMAIN pdfJobs \ {j} :
                 pdfJobs'[k] = pdfJobs[k] /\ tasks'[k] = tasks[k]]_vars

\* one job has failed while another, submitted before or after it, is still
\* being composed with its record as created
C24_Witness ==
  \E j, k \in DOMAIN pdfJobs :
    /\ pdfJobs[j].status = "failed"
    /\ pdfJobs[k].status = "processing" /\ tasks[k].pc \in {"s3", "http"}
    /\ pdfJobs[k].pdfUrl = Undefined /\ pdfJobs[k].message = Undefined

\* C25: every jobId a submission has returned stays in the table, and a status
\* poll for it is answered 200 with that job, however many submissions follow.
C25_JobsRetained ==
  [][\A n \in 1..nextUuid :
       /\ Uuid(n) \in DOMAIN pdfJobs
       /\ Uuid(n) \in DOMAIN pdfJobs'
       /\ GetPdfStatus(Uuid(n)) =>
            (resp'.code = 200 /\ resp'.jobId = Uuid(n) /\ resp'.status # Undefined)]_vars

\* the first job is polled after a later submission was accepted and settled
C25_Witness ==
  /\ nextUuid >= 2
  /\ pdfJobs[Uuid(2)].status \in Terminal
  /\ resp.handler = "getPdfStatus" /\ resp.code = 200 /\ resp.jobId = Uuid(1)

C27_OnlyCompletedServed ==
  [][\A id \in DOMAIN processingJobs :
       (processingJobs[id].status # "completed"
          /\ (GetProcessedImage(id) \/ ConfirmProcessedImage(id)))
       => /\ resp'.code = 400
          /\ resp'.status = processingJobs[id].status
          /\ UNCHANGED <<processingJobs, confirms, bucket, tempFiles>>]_vars

\* a confirm of a failed job has been refused and the job is still stored
C27_Witness ==
  /\ resp.handler = "confirmProcessedImage" /\ resp.code = 400 /\ resp.status = "failed"
  /\ \E id \in DOMAIN processingJobs : processingJobs[id].status = "failed"
  /\ confirms = <<>> /\ bucket = {}

\* C28: a confirm whose upload fails answers 500, stores nothing and leaves the
\* table as it was, with no upload pending for the job, so that it can be
\* confirmed again; a confirm whose upload succeeds answers 200 with the image
\* in the bucket and the record gone; a record leaves the table only by a
\* cancel or with its image in the bucket; and once a job's image is in the
\* bucket the id has no record and every request for it is answered 404.
C28_UploadThenDelete ==
  [][/\ \A j \in DOMAIN confirms :
          /\ ConfirmSettles(j, "throws") =>
               /\ resp'.code = 500
               /\ processingJobs' = processingJobs /\ bucket' = bucket
               /\ j \notin DOMAIN confirms'
          /\ ConfirmSettles(j, "ok") =>
               (resp'.code = 200 /\ j \in bucket' /\ j \notin DOMAIN processingJobs')
     /\ \A j \in DOMAIN processingJobs :
          (j \notin DOMAIN processingJobs' /\ j \notin canceled') => j \in bucket'
     /\ \A j \in bucket :
          /\ j \notin DOMAIN processingJobs /\ j \notin DOMAIN processingJobs'
          /\ (GetProcessingStatus(j) \/ GetProcessedImage(j)
                \/ ConfirmProcessedImage(j) \/ CancelProcessing(j))
               => resp'.code = 404]_vars

\* an upload has just failed: the confirm was answered 500 and the completed
\* job is still stored with no upload pending
C28_Witness ==
  /\ resp.handler = "confirmProcessedImage" /\ resp.code = 500
  /\ \E j \in DOMAIN processingJobs :
       processingJobs[j].status = "completed" /\ j \notin DOMAIN confirms /\ j \notin bucket

\* C29: once a poll has returned completed or failed for the component's job,
\* the component issues no further status request for that job.
C29_ClientStopsPolling ==
  [][client.lastPolled \in Terminal => ~CheckStatus]_vars

\* C30: no confirm writes a key another job's confirm wrote, so every job
\* whose image a confirm stored still has its image in the bucket.
C30_NoOverwrite ==
  \A j \in bucket : \E k \in DOMAIN objects : objects[k] = j

====
